---- MODULE Spec2Model ----
(***************************************************************************)
(* Boxing application: the boxers table (boxers_model.py), the ring        *)
(* (ring_model.py) and the random source (api_utils.py).                   *)
(*                                                                         *)
(* Numbers with a fractional part are kept in fixed point: a skill and a   *)
(* skill difference in tenths (reach is a whole number of inches, so       *)
(* reach / 10 is a whole number of tenths), a random draw and a win        *)
(* probability in hundredths (the random source is asked for two           *)
(* decimals).                                                              *)
(***************************************************************************)
EXTENDS Integers, Sequences, FiniteSets, TLC

VARIABLES store, nextId, ring, last

vars == <<store, nextId, ring, last>>

(***************************************************************************)
(* Bounds of the model.                                                    *)
(***************************************************************************)
\* number of rows ever inserted into the boxers table
MaxId == 2
\* cap on a row's fights counter
MaxFights == 2

Ids == 1..MaxId

(***************************************************************************)
(* Input values.                                                           *)
(***************************************************************************)
Names == {"Ali", "Joe"}

\* <<weight, height, reach, age>> passed to create_boxer: the values of the
\* tests and of the scenario, and the boundaries of every validation
Profiles ==
    { <<200, 70, 74, 28>>, <<125, 70, 74, 18>>, <<125, 70, 70, 40>>,
      <<124, 70, 74, 28>>, <<200, 0, 74, 28>>, <<200, 70, 0, 28>>,
      <<200, 70, 74, 17>>, <<200, 70, 74, 41>> }

Results == {"win", "loss", "draw"}

\* the value None
None == "None"

(***************************************************************************)
(* Exceptions, by raise site.                                              *)
(***************************************************************************)
NoError == [type |-> "none", msg |-> ""]

InvalidWeight == [type |-> "ValueError", msg |-> "Invalid weight"]
InvalidHeight == [type |-> "ValueError", msg |-> "Invalid height"]
InvalidReach == [type |-> "ValueError", msg |-> "Invalid reach"]
InvalidAge == [type |-> "ValueError", msg |-> "Invalid age"]
InvalidResult == [type |-> "ValueError", msg |-> "Invalid result"]
DuplicateError == [type |-> "ValueError", msg |-> "already exists"]
NotFoundError == [type |-> "ValueError", msg |-> "not found"]
TypeConstraintError == [type |-> "TypeError", msg |-> "Invalid type: Expected 'Boxer'"]
CapacityError == [type |-> "ValueError", msg |-> "Ring is full, cannot add more boxers."]
PreconditionError == [type |-> "ValueError", msg |-> "There must be two boxers to start a fight."]
TimeoutError == [type |-> "RuntimeError", msg |-> "Request to random.org timed out."]
UnavailableError == [type |-> "RuntimeError", msg |-> "Request to random.org failed"]
ParseError == [type |-> "ValueError", msg |-> "Invalid response from random.org"]
\* an exception of the request that is no requests.exceptions.RequestException
\* is caught by no handler of get_random
UncaughtError == [type |-> "Exception", msg |-> "Boom"]

ValidationErrors == {InvalidWeight, InvalidHeight, InvalidReach, InvalidAge}

(***************************************************************************)
(* api_utils.py: the random source.                                        *)
(***************************************************************************)
Digits == <<"0", "1", "2", "3", "4", "5", "6", "7", "8", "9">>

IsDigit(c) == \E i \in 1..10 : Digits[i] = c

DigitValue(c) == (CHOOSE i \in 1..10 : Digits[i] = c) - 1

\* the text of a response, after strip(), character by character
Bodies ==
    { <<"0", ".", "4", "9">>, <<"0", ".", "5", "0">>, <<"0", ".", "8", "4">>,
      <<"1", ".", "0", "0">>, <<"a", "b", "c">> }

\* what requests.get and raise_for_status do: answer, or raise
\* Timeout, another RequestException (HTTPError), or another exception
ResponseKinds == {"ok", "timeout", "http_error", "exception"}

Responses ==
    [kind : {"ok"}, body : Bodies]
        \cup [kind : ResponseKinds \ {"ok"}, body : {<<>>}]

\* get_random has not been called
NotCalled == [kind |-> "not_called", body |-> <<>>]

DotCount(b) == Cardinality({i \in 1..Len(b) : b[i] = "."})

\* float(s) succeeds on a decimal literal: digits with at most one point
IsFloat(b) ==
    /\ \A i \in 1..Len(b) : IsDigit(b[i]) \/ b[i] = "."
    /\ DotCount(b) <= 1
    /\ \E i \in 1..Len(b) : IsDigit(b[i])

RECURSIVE DigitsValue(_)
DigitsValue(b) ==
    IF b = <<>> THEN 0
    ELSE 10 * DigitsValue(SubSeq(b, 1, Len(b) - 1)) + DigitValue(b[Len(b)])

DotPos(b) ==
    IF DotCount(b) = 0 THEN Len(b) + 1
    ELSE CHOOSE i \in 1..Len(b) : b[i] = "."

\* float(s) in hundredths, for a literal of at most two decimals
ParseFloat(b) ==
    LET int == SubSeq(b, 1, DotPos(b) - 1)
        frac == SubSeq(b, DotPos(b) + 1, Len(b))
        frac2 == IF Len(frac) = 0 THEN <<"0", "0">>
                 ELSE IF Len(frac) = 1 THEN frac \o <<"0">>
                 ELSE SubSeq(frac, 1, 2)
    IN  100 * DigitsValue(int) + DigitsValue(frac2)

\* get_random() that answers 0.0 for a text that is no number
get_random_swallows(resp) ==
    IF resp.kind = "timeout" THEN [err |-> TimeoutError, val |-> 0]
    ELSE IF resp.kind = "http_error" THEN [err |-> UnavailableError, val |-> 0]
    ELSE IF resp.kind = "exception" THEN [err |-> UncaughtError, val |-> 0]
    ELSE IF IsFloat(resp.body)
         THEN [err |-> NoError, val |-> ParseFloat(resp.body)]
         ELSE [err |-> NoError, val |-> 0]

\* get_random(): the error raised, or the number returned
get_random(resp) ==
    IF resp.kind = "timeout" THEN [err |-> TimeoutError, val |-> 0]
    ELSE IF resp.kind = "http_error" THEN [err |-> UnavailableError, val |-> 0]
    ELSE IF resp.kind = "exception" THEN [err |-> UncaughtError, val |-> 0]
    ELSE IF IsFloat(resp.body)
         THEN [err |-> NoError, val |-> ParseFloat(resp.body)]
         ELSE [err |-> ParseError, val |-> 0]

(***************************************************************************)
(* boxers_model.py: the boxers table.  store maps the id of a row to its   *)
(* columns; nextId is the id the next insert gets.                         *)
(***************************************************************************)
HEAVYWEIGHT == 203
MIDDLEWEIGHT == 166
LIGHTWEIGHT == 133
FEATHERWEIGHT == 125

MinAge == 18
MaxAge == 40

\* get_weight_class(weight) with the thresholds taken as exclusive
get_weight_class_exclusive(weight) ==
    IF weight > HEAVYWEIGHT THEN [err |-> NoError, val |-> "HEAVYWEIGHT"]
    ELSE IF weight > MIDDLEWEIGHT THEN [err |-> NoError, val |-> "MIDDLEWEIGHT"]
    ELSE IF weight > LIGHTWEIGHT THEN [err |-> NoError, val |-> "LIGHTWEIGHT"]
    ELSE IF weight > FEATHERWEIGHT THEN [err |-> NoError, val |-> "FEATHERWEIGHT"]
    ELSE [err |-> InvalidWeight, val |-> None]

\* get_weight_class(weight): the class, or the error raised
get_weight_class(weight) ==
    IF weight >= HEAVYWEIGHT THEN [err |-> NoError, val |-> "HEAVYWEIGHT"]
    ELSE IF weight >= MIDDLEWEIGHT THEN [err |-> NoError, val |-> "MIDDLEWEIGHT"]
    ELSE IF weight >= LIGHTWEIGHT THEN [err |-> NoError, val |-> "LIGHTWEIGHT"]
    ELSE IF weight >= FEATHERWEIGHT THEN [err |-> NoError, val |-> "FEATHERWEIGHT"]
    ELSE [err |-> InvalidWeight, val |-> None]

\* Boxer(...) with height and reach taken from each other's column
Boxer_columns_swapped(id, name, weight, height, reach, age) ==
    [type |-> "Boxer", id |-> id, name |-> name, weight |-> weight,
     height |-> reach, reach |-> height, age |-> age,
     weight_class |-> get_weight_class(weight).val]

\* Boxer(...): the dataclass, weight_class set by __post_init__
Boxer(id, name, weight, height, reach, age) ==
    [type |-> "Boxer", id |-> id, name |-> name, weight |-> weight,
     height |-> height, reach |-> reach, age |-> age,
     weight_class |-> get_weight_class(weight).val]

\* a value that is no Boxer
NotABoxer == [type |-> "str", value |-> "NotABoxer"]

\* isinstance(boxer, Boxer)
IsBoxer(v) == v.type = "Boxer"

\* the table boxers: fights and wins are "int default 0"
ColumnDefault == 0

\* the table boxers: id is "PK autoincrement"; the id after nid
autoincrement(nid) == nid + 1

\* the row inserted by create_boxer: fights and wins take their default
NewRow(name, weight, height, reach, age) ==
    [name |-> name, weight |-> weight, height |-> height, reach |-> reach,
     age |-> age, fights |-> ColumnDefault, wins |-> ColumnDefault]

\* the lookup of the name matching no row
NameExists_never(st, name) == FALSE

\* SELECT 1 FROM boxers WHERE name = ?
NameExists(st, name) == \E id \in DOMAIN st : st[id].name = name

\* the validation with the upper age excluded
create_validation_age_exclusive(weight, height, reach, age) ==
    IF weight < FEATHERWEIGHT THEN InvalidWeight
    ELSE IF height <= 0 THEN InvalidHeight
    ELSE IF reach <= 0 THEN InvalidReach
    ELSE IF ~(MinAge <= age /\ age < MaxAge) THEN InvalidAge
    ELSE NoError

\* the validation of create_boxer, in the order of the code
create_validation(weight, height, reach, age) ==
    IF weight < FEATHERWEIGHT THEN InvalidWeight
    ELSE IF height <= 0 THEN InvalidHeight
    ELSE IF reach <= 0 THEN InvalidReach
    ELSE IF ~(MinAge <= age /\ age <= MaxAge) THEN InvalidAge
    ELSE NoError

\* create_boxer(name, weight, height, reach, age) on table st
create_boxer(st, nid, name, weight, height, reach, age) ==
    LET verr == create_validation(weight, height, reach, age)
    IN  IF verr # NoError THEN [err |-> verr, store |-> st, nextId |-> nid]
        ELSE IF NameExists(st, name)
             THEN [err |-> DuplicateError, store |-> st, nextId |-> nid]
             ELSE [err |-> NoError,
                   store |-> [id \in DOMAIN st \cup {nid} |->
                                 IF id = nid
                                 THEN NewRow(name, weight, height, reach, age)
                                 ELSE st[id]],
                   nextId |-> autoincrement(nid)]

\* delete_boxer(boxer_id) with a DELETE that has no WHERE
delete_boxer_every_row(st, boxer_id) ==
    IF boxer_id \notin DOMAIN st THEN [err |-> NotFoundError, store |-> st]
    ELSE [err |-> NoError, store |-> [id \in {} |-> st[id]]]

\* delete_boxer(boxer_id)
delete_boxer(st, boxer_id) ==
    IF boxer_id \notin DOMAIN st THEN [err |-> NotFoundError, store |-> st]
    ELSE [err |-> NoError,
          store |-> [id \in DOMAIN st \ {boxer_id} |-> st[id]]]

\* get_boxer_by_id(boxer_id)
get_boxer_by_id(st, boxer_id) ==
    IF boxer_id \in DOMAIN st
    THEN [err |-> NoError,
          val |-> Boxer(boxer_id, st[boxer_id].name, st[boxer_id].weight,
                        st[boxer_id].height, st[boxer_id].reach,
                        st[boxer_id].age)]
    ELSE [err |-> NotFoundError, val |-> NotABoxer]

\* the update counting a win whatever the result
UpdateRow_always_win(row, result) ==
    [row EXCEPT !.fights = @ + 1, !.wins = @ + 1]

\* the update of a win leaving fights as it is
UpdateRow_win_without_fight(row, result) ==
    IF result = "win"
    THEN [row EXCEPT !.wins = @ + 1]
    ELSE [row EXCEPT !.fights = @ + 1]

\* UPDATE boxers SET fights = fights + 1 [, wins = wins + 1] WHERE id = ?
UpdateRow(row, result) ==
    IF result = "win"
    THEN [row EXCEPT !.fights = @ + 1, !.wins = @ + 1]
    ELSE [row EXCEPT !.fights = @ + 1]

\* update_boxer_stats(boxer_id, result) looking the row up before it checks
\* the result
update_boxer_stats_lookup_first(st, boxer_id, result) ==
    IF boxer_id \notin DOMAIN st THEN [err |-> NotFoundError, store |-> st]
    ELSE IF result \notin {"win", "loss"} THEN [err |-> InvalidResult, store |-> st]
    ELSE [err |-> NoError,
          store |-> [st EXCEPT ![boxer_id] = UpdateRow(@, result)]]

\* update_boxer_stats(boxer_id, result)
update_boxer_stats(st, boxer_id, result) ==
    IF result \notin {"win", "loss"} THEN [err |-> InvalidResult, store |-> st]
    ELSE IF boxer_id \notin DOMAIN st THEN [err |-> NotFoundError, store |-> st]
    ELSE [err |-> NoError,
          store |-> [st EXCEPT ![boxer_id] = UpdateRow(@, result)]]

\* get_boxer_by_name(boxer_name): fetchone() takes the first row of the name
get_boxer_by_name(st, boxer_name) ==
    IF \E id \in DOMAIN st : st[id].name = boxer_name
    THEN LET id == CHOOSE i \in DOMAIN st :
                      /\ st[i].name = boxer_name
                      /\ \A j \in DOMAIN st : st[j].name = boxer_name => i <= j
         IN  [err |-> NoError,
              val |-> Boxer(id, st[id].name, st[id].weight, st[id].height,
                            st[id].reach, st[id].age)]
    ELSE [err |-> NotFoundError, val |-> NotABoxer]

InvalidSortBy == [type |-> "ValueError", msg |-> "Invalid sort_by parameter"]

\* the values passed as sort_by
SortBys == {"wins", "win_pct", "name"}

\* ... FROM boxers WHERE fights > 0
LeaderboardIds_winners(st) == {id \in DOMAIN st : st[id].wins > 0}

LeaderboardIds(st) == {id \in DOMAIN st : st[id].fights > 0}

MayPrecede_ascending(st, sort_by, a, b) ==
    IF sort_by = "win_pct"
    THEN st[a].wins * st[b].fights <= st[b].wins * st[a].fights
    ELSE st[a].wins <= st[b].wins

\* ORDER BY wins DESC, ORDER BY win_pct DESC: row a may come before row b;
\* win_pct is wins * 1.0 / fights, compared here as a fraction
MayPrecede(st, sort_by, a, b) ==
    IF sort_by = "win_pct"
    THEN st[a].wins * st[b].fights >= st[b].wins * st[a].fights
    ELSE st[a].wins >= st[b].wins

\* the orders in which the query may return the rows: rows of equal key come
\* in an order that SQL leaves open
QueryOrders(st, sort_by) ==
    LET ids == LeaderboardIds(st)
        n == Cardinality(ids)
    IN  {s \in [1..n -> ids] :
            /\ \A i, j \in 1..n : s[i] = s[j] => i = j
            /\ \A i, j \in 1..n : i < j => MayPrecede(st, sort_by, s[i], s[j])}

\* round(row[8] * 100, 1) in tenths of a percent: round half to even
win_pct(wins, fights) ==
    LET q == (1000 * wins) \div fights
        r == (1000 * wins) % fights
    IN  IF 2 * r > fights THEN q + 1
        ELSE IF 2 * r < fights THEN q
        ELSE IF q % 2 = 0 THEN q ELSE q + 1

\* the dict built of a row of the query
LeaderboardEntry(st, id) ==
    [id |-> id, name |-> st[id].name, weight |-> st[id].weight,
     height |-> st[id].height, reach |-> st[id].reach, age |-> st[id].age,
     weight_class |-> get_weight_class(st[id].weight).val,
     fights |-> st[id].fights, wins |-> st[id].wins,
     win_pct |-> win_pct(st[id].wins, st[id].fights)]

\* get_leaderboard(sort_by): what the call may do: the error raised, whether
\* the query was executed, and the list returned
get_leaderboard(st, sort_by) ==
    IF sort_by \notin {"win_pct", "wins"}
    THEN {[err |-> InvalidSortBy, queried |-> FALSE, rows |-> <<>>]}
    ELSE {[err |-> NoError, queried |-> TRUE,
           rows |-> [i \in 1..Len(s) |-> LeaderboardEntry(st, s[i])]] :
             s \in QueryOrders(st, sort_by)}

(***************************************************************************)
(* ring_model.py: the ring.                                                *)
(***************************************************************************)
\* the capacity of the ring
RingCapacity == 2

\* get_fighting_skill(boxer) taking the ages 25 and 35 with the modifiers
get_fighting_skill_age_inclusive(boxer) ==
    LET age_modifier == IF boxer.age <= 25 THEN -1
                        ELSE IF boxer.age >= 35 THEN -2 ELSE 0
    IN  10 * (boxer.weight * Len(boxer.name)) + boxer.reach + 10 * age_modifier

\* get_fighting_skill(boxer), in tenths
get_fighting_skill(boxer) ==
    LET age_modifier == IF boxer.age < 25 THEN -1
                        ELSE IF boxer.age > 35 THEN -2 ELSE 0
    IN  10 * (boxer.weight * Len(boxer.name)) + boxer.reach + 10 * age_modifier

\* the difference without abs
skill_delta_signed(skill_1, skill_2) == skill_1 - skill_2

\* abs(skill_1 - skill_2), in tenths
skill_delta(skill_1, skill_2) ==
    IF skill_1 - skill_2 >= 0 THEN skill_1 - skill_2 ELSE skill_2 - skill_1

\* for delta = 0.0, 0.1, ..., 4.5 the number of two-decimal fractions k/100,
\* k >= 0, below 1 / (1 + e ** (-delta)), that is ceil(100 / (1 + e ** (-delta)))
LogisticTable ==
    << 50, 53, 55, 58, 60, 63, 65, 67, 69, 72,
       74, 76, 77, 79, 81, 82, 84, 85, 86, 87,
       89, 90, 91, 91, 92, 93, 94, 94, 95, 95,
       96, 96, 97, 97, 97, 98, 98, 98, 98, 99,
       99, 99, 99, 99, 99, 99 >>

\* 1 / (1 + math.e ** (-delta)) for delta in tenths, as the least number of
\* hundredths that is not below it; it is at most 1.0, and above 0.99 from
\* delta = 4.6 on; 1 / (1 + e ** delta) = 1 - 1 / (1 + e ** (-delta))
normalized_delta(delta) ==
    IF delta >= Len(LogisticTable) THEN 100
    ELSE IF delta >= 0 THEN LogisticTable[delta + 1]
    ELSE IF -delta >= Len(LogisticTable) THEN 1
    ELSE 101 - LogisticTable[1 - delta]

\* if random_number < normalized_delta: boxer_1 wins, else boxer_2;
\* the position in the ring of the winner
pick_winner(random_number, nd) == IF random_number < nd THEN 1 ELSE 2

\* clear_ring() leaving the ring as it is
clear_ring_keeps(rg) == rg

\* clear_ring()
clear_ring(rg) == IF rg # <<>> THEN <<>> ELSE rg

\* enter_ring(boxer) refusing only above two boxers
enter_ring_off_by_one(rg, boxer) ==
    IF ~IsBoxer(boxer) THEN [err |-> TypeConstraintError, ring |-> rg]
    ELSE IF Len(rg) > RingCapacity THEN [err |-> CapacityError, ring |-> rg]
    ELSE [err |-> NoError, ring |-> Append(rg, boxer)]

\* enter_ring(boxer) putting the boxer in front
enter_ring_in_front(rg, boxer) ==
    IF ~IsBoxer(boxer) THEN [err |-> TypeConstraintError, ring |-> rg]
    ELSE IF Len(rg) >= RingCapacity THEN [err |-> CapacityError, ring |-> rg]
    ELSE [err |-> NoError, ring |-> <<boxer>> \o rg]

\* enter_ring(boxer) looking at the room left before the type
enter_ring_capacity_first(rg, boxer) ==
    IF Len(rg) >= RingCapacity THEN [err |-> CapacityError, ring |-> rg]
    ELSE IF ~IsBoxer(boxer) THEN [err |-> TypeConstraintError, ring |-> rg]
    ELSE [err |-> NoError, ring |-> Append(rg, boxer)]

\* enter_ring(boxer)
enter_ring(rg, boxer) ==
    IF ~IsBoxer(boxer) THEN [err |-> TypeConstraintError, ring |-> rg]
    ELSE IF Len(rg) >= RingCapacity THEN [err |-> CapacityError, ring |-> rg]
    ELSE [err |-> NoError, ring |-> Append(rg, boxer)]

\* fight() with fewer than two boxers clearing the ring
FightTooFew_clears(rg, st) ==
    [err |-> PreconditionError, ret |-> None, ring |-> <<>>, store |-> st,
     rnd |-> NotCalled, winner |-> 0]

\* fight() with fewer than two boxers in the ring
FightTooFew(rg, st) ==
    [err |-> PreconditionError, ret |-> None, ring |-> rg, store |-> st,
     rnd |-> NotCalled, winner |-> 0]

\* fight() with two boxers in the ring, undoing the first update when the
\* second one fails
FightReady_rolls_back(rg, st, resp) ==
    LET boxer_1 == rg[1]
        boxer_2 == rg[2]
        skill_1 == get_fighting_skill(boxer_1)
        skill_2 == get_fighting_skill(boxer_2)
        delta == skill_delta(skill_1, skill_2)
        nd == normalized_delta(delta)
        random == get_random(resp)
        w == pick_winner(random.val, nd)
        winner == rg[w]
        loser == rg[3 - w]
        won == update_boxer_stats(st, winner.id, "win")
        lost == update_boxer_stats(won.store, loser.id, "loss")
    IN  IF random.err # NoError
        THEN [err |-> random.err, ret |-> None, ring |-> rg, store |-> st,
              rnd |-> resp, winner |-> 0]
        ELSE IF won.err # NoError
        THEN [err |-> won.err, ret |-> None, ring |-> rg, store |-> st,
              rnd |-> resp, winner |-> w]
        ELSE IF lost.err # NoError
        THEN [err |-> lost.err, ret |-> None, ring |-> rg, store |-> st,
              rnd |-> resp, winner |-> w]
        ELSE [err |-> NoError, ret |-> winner.name, ring |-> clear_ring(rg),
              store |-> lost.store, rnd |-> resp, winner |-> w]

\* fight() with two boxers in the ring; resp is what the random source does
FightReady(rg, st, resp) ==
    LET boxer_1 == rg[1]
        boxer_2 == rg[2]
        skill_1 == get_fighting_skill(boxer_1)
        skill_2 == get_fighting_skill(boxer_2)
        delta == skill_delta(skill_1, skill_2)
        nd == normalized_delta(delta)
        random == get_random(resp)
        w == pick_winner(random.val, nd)
        winner == rg[w]
        loser == rg[3 - w]
        won == update_boxer_stats(st, winner.id, "win")
        lost == update_boxer_stats(won.store, loser.id, "loss")
    IN  IF random.err # NoError
        THEN [err |-> random.err, ret |-> None, ring |-> rg, store |-> st,
              rnd |-> resp, winner |-> 0]
        ELSE IF won.err # NoError
        THEN [err |-> won.err, ret |-> None, ring |-> rg, store |-> st,
              rnd |-> resp, winner |-> w]
        ELSE IF lost.err # NoError
        THEN [err |-> lost.err, ret |-> None, ring |-> rg, store |-> won.store,
              rnd |-> resp, winner |-> w]
        ELSE [err |-> NoError, ret |-> winner.name, ring |-> clear_ring(rg),
              store |-> lost.store, rnd |-> resp, winner |-> w]

\* fight() clearing the ring also when the fight fails
fight_always_clears(rg, st, resp) ==
    IF Len(rg) < 2 THEN FightTooFew(rg, st)
    ELSE [FightReady(rg, st, resp) EXCEPT !.ring = clear_ring(rg)]

\* fight()
fight(rg, st, resp) ==
    IF Len(rg) < 2 THEN FightTooFew(rg, st) ELSE FightReady(rg, st, resp)

(***************************************************************************)
(* The state machine.  last records the latest call: its name, arguments,  *)
(* the error it raised, the string it returned (ret) or the object it      *)
(* returned (val), what the random source did and the position in the ring *)
(* of the boxer picked as winner.                                          *)
(***************************************************************************)
\* no object is returned
NoValue == [type |-> "NoneType"]

Call(op, args, err, ret, rnd, winner) ==
    [op |-> op, args |-> args, err |-> err, ret |-> ret, rnd |-> rnd,
     winner |-> winner, val |-> NoValue]

\* a call that returns an object, or raises
CallVal(op, args, err, val) ==
    [Call(op, args, err, None, NotCalled, 0) EXCEPT
        !.val = IF err = NoError THEN val ELSE NoValue]

Init ==
    /\ store = [id \in {} |-> NewRow("", 0, 0, 0, 0)]
    /\ nextId = 1
    /\ ring = <<>>
    /\ last = Call("init", <<>>, NoError, None, NotCalled, 0)

CreateBoxer ==
    \E name \in Names, p \in Profiles :
        LET r == create_boxer(store, nextId, name, p[1], p[2], p[3], p[4])
        IN  /\ r.err = NoError => nextId <= MaxId
            /\ store' = r.store
            /\ nextId' = r.nextId
            /\ last' = Call("create_boxer", <<name, p[1], p[2], p[3], p[4]>>,
                            r.err, None, NotCalled, 0)
            /\ UNCHANGED ring

DeleteBoxer ==
    \E id \in Ids :
        LET r == delete_boxer(store, id)
        IN  /\ store' = r.store
            /\ last' = Call("delete_boxer", <<id>>, r.err, None, NotCalled, 0)
            /\ UNCHANGED <<nextId, ring>>

UpdateBoxerStats ==
    \E id \in Ids, result \in Results :
        LET r == update_boxer_stats(store, id, result)
        IN  /\ id \in DOMAIN store => store[id].fights + 1 <= MaxFights
            /\ store' = r.store
            /\ last' = Call("update_boxer_stats", <<id, result>>, r.err, None,
                            NotCalled, 0)
            /\ UNCHANGED <<nextId, ring>>

\* the values passed to enter_ring: a boxer read from the table, or no Boxer
EnterArgs == {get_boxer_by_id(store, id).val : id \in DOMAIN store} \cup {NotABoxer}

EnterRing ==
    \E boxer \in EnterArgs :
        LET r == enter_ring(ring, boxer)
        IN  /\ ring' = r.ring
            /\ last' = Call("enter_ring", <<boxer>>, r.err, None, NotCalled, 0)
            /\ UNCHANGED <<store, nextId>>

Fight ==
    \E resp \in Responses :
        LET r == fight(ring, store, resp)
        IN  /\ \A i \in 1..Len(ring) :
                 ring[i].id \in DOMAIN store
                    => store[ring[i].id].fights
                           + Cardinality({j \in 1..Len(ring) : ring[j].id = ring[i].id})
                              <= MaxFights
            /\ ring' = r.ring
            /\ store' = r.store
            /\ last' = Call("fight", <<>>, r.err, r.ret, r.rnd, r.winner)
            /\ UNCHANGED nextId

ClearRing ==
    /\ ring' = clear_ring(ring)
    /\ last' = Call("clear_ring", <<>>, NoError, None, NotCalled, 0)
    /\ UNCHANGED <<store, nextId>>

Next ==
    \/ CreateBoxer
    \/ DeleteBoxer
    \/ UpdateBoxerStats
    \/ EnterRing
    \/ Fight
    \/ ClearRing

Spec == Init /\ [][Next]_vars

\* the shape of the state
TypeOK ==
    /\ DOMAIN store \subseteq 1..(nextId - 1)
    /\ nextId \in 1..(MaxId + 1)
    /\ Len(ring) \in 0..3
    /\ \A i \in 1..Len(ring) : IsBoxer(ring[i])

(***************************************************************************)
(* The table alone: its writes and its reads, with no ring.                *)
(***************************************************************************)
GetBoxerById ==
    \E id \in Ids :
        LET r == get_boxer_by_id(store, id)
        IN  /\ last' = CallVal("get_boxer_by_id", <<id>>, r.err, r.val)
            /\ UNCHANGED <<store, nextId, ring>>

GetBoxerByName ==
    \E name \in Names :
        LET r == get_boxer_by_name(store, name)
        IN  /\ last' = CallVal("get_boxer_by_name", <<name>>, r.err, r.val)
            /\ UNCHANGED <<store, nextId, ring>>

GetLeaderboard ==
    \E sort_by \in SortBys :
        \E r \in get_leaderboard(store, sort_by) :
            /\ last' = [CallVal("get_leaderboard", <<sort_by>>, r.err, NoValue)
                           EXCEPT !.val = [type |-> "list",
                                           queried |-> r.queried,
                                           rows |-> r.rows]]
            /\ UNCHANGED <<store, nextId, ring>>

NextRepo ==
    \/ CreateBoxer
    \/ DeleteBoxer
    \/ UpdateBoxerStats
    \/ GetBoxerById
    \/ GetBoxerByName
    \/ GetLeaderboard

SpecRepo == Init /\ [][NextRepo]_vars

(***************************************************************************)
(* get_weight_class alone, over the weights from -MaxWeight to MaxWeight.  *)
(***************************************************************************)
MaxWeight == 240

Weights == (0 - MaxWeight)..MaxWeight

GetWeightClass ==
    \E weight \in Weights :
        LET r == get_weight_class(weight)
        IN  /\ last' = Call("get_weight_class", <<weight>>, r.err, r.val,
                            NotCalled, 0)
            /\ UNCHANGED <<store, nextId, ring>>

NextWeightClass == GetWeightClass

SpecWeightClass == Init /\ [][NextWeightClass]_vars

(***************************************************************************)
(* get_random alone, over every text of at most MaxBodyLen characters of   *)
(* BodyChars and every way in which the request can fail.                  *)
(***************************************************************************)
MaxBodyLen == 3

BodyChars == {"0", "1", "5", ".", "a"}

TextBodies == UNION {[1..n -> BodyChars] : n \in 0..MaxBodyLen}

TextResponses ==
    [kind : {"ok"}, body : TextBodies]
        \cup [kind : ResponseKinds \ {"ok"}, body : {<<>>}]

GetRandom ==
    \E resp \in TextResponses :
        LET r == get_random(resp)
        IN  /\ last' = [CallVal("get_random", <<>>, r.err,
                                [type |-> "float", hundredths |-> r.val])
                           EXCEPT !.rnd = resp]
            /\ UNCHANGED <<store, nextId, ring>>

NextRandom == GetRandom

SpecRandom == Init /\ [][NextRandom]_vars

(***************************************************************************)
(* The fights of Ali and Tyson, with every draw of two decimals, and       *)
(* get_fighting_skill alone over boxers of every age group.                *)
(***************************************************************************)
\* <<name, weight, height, reach, age>>
ScenarioBoxers ==
    { <<"Ali", 200, 70, 74, 28>>, <<"Tyson", 220, 71, 71, 25>> }

CreateScenarioBoxer ==
    \E b \in ScenarioBoxers :
        LET r == create_boxer(store, nextId, b[1], b[2], b[3], b[4], b[5])
        IN  /\ r.err = NoError => nextId <= MaxId
            /\ store' = r.store
            /\ nextId' = r.nextId
            /\ last' = Call("create_boxer", b, r.err, None, NotCalled, 0)
            /\ UNCHANGED ring

\* the texts 0.00, 0.01, ..., 0.99 and 1.00
DrawBodies ==
    { <<"0", ".", Digits[i], Digits[j]>> : i, j \in 1..10 }
        \cup { <<"1", ".", "0", "0">> }

FightDraw ==
    \E body \in DrawBodies :
        LET r == fight(ring, store, [kind |-> "ok", body |-> body])
        IN  /\ \A i \in 1..Len(ring) :
                 ring[i].id \in DOMAIN store
                    => store[ring[i].id].fights
                           + Cardinality({j \in 1..Len(ring) : ring[j].id = ring[i].id})
                              <= MaxFights
            /\ ring' = r.ring
            /\ store' = r.store
            /\ last' = Call("fight", <<>>, r.err, r.ret, r.rnd, r.winner)
            /\ UNCHANGED nextId

SkillNames == {"Ali", "Tyson"}
SkillWeights == {125, 200, 220}
SkillReaches == {70, 71, 74}
SkillAges == {18, 24, 25, 26, 28, 35, 36, 40}

GetFightingSkill ==
    \E name \in SkillNames, weight \in SkillWeights, reach \in SkillReaches,
       age \in SkillAges :
        LET boxer == Boxer(1, name, weight, 70, reach, age)
        IN  /\ last' = CallVal("get_fighting_skill", <<boxer>>, NoError,
                               [type |-> "float",
                                tenths |-> get_fighting_skill(boxer)])
            /\ UNCHANGED <<store, nextId, ring>>

NextScenario ==
    \/ CreateScenarioBoxer
    \/ EnterRing
    \/ FightDraw
    \/ GetFightingSkill

SpecScenario == Init /\ [][NextScenario]_vars

(***************************************************************************)
(* Properties of the ring.                                                 *)
(***************************************************************************)
\* C1: in every reachable state, whatever calls of enter_ring, fight and
\* clear_ring were made and whether or not they failed, the ring holds at
\* most 2 boxers.
C1_RingHoldsAtMostTwo == Len(ring) <= 2

\* a further enter_ring has been refused on a ring of two
C1_Witness ==
    /\ last.op = "enter_ring"
    /\ last.err = CapacityError
    /\ Len(ring) = 2

\* C2: enter_ring with a Boxer on a ring of two boxers fails with
\* CapacityError and leaves the two occupants and their order as they were;
\* on a ring of none or one it succeeds and the boxer becomes the last
\* occupant.
C2_EnterRing ==
    [][ (last'.op = "enter_ring" /\ last'.args[1].type = "Boxer")
          => IF Len(ring) = 2
             THEN /\ last'.err = CapacityError
                  /\ ring' = ring
             ELSE /\ last'.err = NoError
                  /\ Len(ring') = Len(ring) + 1
                  /\ ring'[Len(ring')] = last'.args[1]
                  /\ \A i \in 1..Len(ring) : ring'[i] = ring[i] ]_vars

\* a second, different boxer has entered behind the first
C2_Witness ==
    /\ last.op = "enter_ring"
    /\ last.err = NoError
    /\ Len(ring) = 2
    /\ ring[1].id # ring[2].id
    /\ ring[2] = last.args[1]

\* C3: fight on a ring of fewer than two boxers fails with PreconditionError;
\* the ring is as it was, the random source is not called and no row of the
\* table changes.
C3_FightTooFew ==
    [][ (last'.op = "fight" /\ Len(ring) < 2)
          => /\ last'.err = PreconditionError
             /\ ring' = ring
             /\ last'.rnd.kind = "not_called"
             /\ store' = store ]_vars

\* fight has been refused on a ring of one boxer whose row exists
C3_Witness ==
    /\ last.op = "fight"
    /\ last.err = PreconditionError
    /\ Len(ring) = 1
    /\ ring[1].id \in DOMAIN store

\* C4: whenever fight returns, the ring is empty, whichever boxer won, and
\* the value returned is the name of one of the two boxers that were in the
\* ring when fight was called.
C4_FightClearsRing ==
    [][ (last'.op = "fight" /\ last'.err = NoError)
          => /\ Len(ring) = 2
             /\ ring' = <<>>
             /\ last'.ret \in {ring[1].name, ring[2].name} ]_vars

\* a fight won by the second boxer has returned
C4_Witness ==
    /\ last.op = "fight"
    /\ last.err = NoError
    /\ last.winner = 2
    /\ ring = <<>>
    /\ \E id \in DOMAIN store : store[id].name = last.ret /\ store[id].wins = 1

\* the random source failed: the request raised, or the text is no number
RandomSourceFailed(resp) ==
    \/ resp.kind \in {"timeout", "http_error", "exception"}
    \/ resp.kind = "ok" /\ resp.body \in {<<"a", "b", "c">>}

\* C5: if the random source fails during a fight, the fight fails with the
\* error of the random source, no winner is picked and no row of the table
\* changes.
C5_RandomFailureNoStats ==
    [][ (last'.op = "fight" /\ Len(ring) = 2 /\ RandomSourceFailed(last'.rnd))
          => /\ last'.err \in {TimeoutError, UnavailableError, ParseError,
                               UncaughtError}
             /\ last'.rnd.kind = "timeout" => last'.err = TimeoutError
             /\ last'.rnd.kind = "ok" => last'.err = ParseError
             /\ last'.winner = 0
             /\ store' = store ]_vars

\* a fight of two boxers with rows has failed on the text "abc"
C5_Witness ==
    /\ last.op = "fight"
    /\ last.err = ParseError
    /\ last.rnd.body = <<"a", "b", "c">>
    /\ Len(ring) = 2
    /\ \A i \in 1..2 : ring[i].id \in DOMAIN store

\* weight * len(name) + reach / 10 + age modifier, in tenths
SkillTenths(b) ==
    10 * b.weight * Len(b.name) + b.reach
        + (IF b.age < 25 THEN -10 ELSE IF b.age > 35 THEN -20 ELSE 0)

\* the absolute value
Abs(x) == IF x < 0 THEN -x ELSE x

\* the random source answered the number r, in hundredths
Drew(resp, r) ==
    \/ resp.kind = "ok" /\ resp.body = <<"0", ".", "4", "9">> /\ r = 49
    \/ resp.kind = "ok" /\ resp.body = <<"0", ".", "5", "0">> /\ r = 50
    \/ resp.kind = "ok" /\ resp.body = <<"0", ".", "8", "4">> /\ r = 84
    \/ resp.kind = "ok" /\ resp.body = <<"1", ".", "0", "0">> /\ r = 100

\* C6: in a fight of first occupant A and second occupant B with draw r, A
\* is picked as winner iff r < logistic(|skill(A) - skill(B)|), otherwise B;
\* so every draw r < 1/2 makes A the winner, whoever has the higher skill.
C6_FirstWinsBelowProbability ==
    [][ \A r \in {49, 50, 84, 100} :
          (last'.op = "fight" /\ Len(ring) = 2 /\ Drew(last'.rnd, r))
            => LET d == Abs(SkillTenths(ring[1]) - SkillTenths(ring[2]))
                   p == IF d >= 46 THEN 100 ELSE LogisticTable[d + 1]
               IN  /\ last'.winner \in {1, 2}
                   /\ last'.winner = 1 <=> r < p
                   /\ r < 50 => last'.winner = 1
                   /\ last'.err = NoError
                        => last'.ret = ring[last'.winner].name ]_vars

\* the first occupant has won on a draw below 1/2 against a boxer of higher
\* skill
C6_Witness ==
    /\ last.op = "fight"
    /\ last.err = NoError
    /\ last.winner = 1
    /\ Drew(last.rnd, 49)
    /\ \E a, b \in DOMAIN store :
          /\ store[a].name = last.ret
          /\ store[a].fights = 1 /\ store[a].wins = 1
          /\ store[b].fights = 1 /\ store[b].wins = 0
          /\ SkillTenths(store[a]) < SkillTenths(store[b])

(***************************************************************************)
(* Properties of the boxers table.                                         *)
(***************************************************************************)
\* update_boxer_stats(boxer_id, result) called n times in a row on table st
RECURSIVE UpdatedTimes(_, _, _, _)
UpdatedTimes(st, boxer_id, result, n) ==
    IF n = 0 THEN st
    ELSE update_boxer_stats(UpdatedTimes(st, boxer_id, result, n - 1),
                            boxer_id, result).store

\* C7: update_boxer_stats(id, "win") on an existing row adds 1 to its fights
\* and 1 to its wins, update_boxer_stats(id, "loss") adds 1 to its fights
\* only; every other row and every other column is as it was; the call is
\* not idempotent: n calls add n to fights.
C7_UpdateStats ==
    /\ [][ \A id \in DOMAIN store :
             (/\ last'.op = "update_boxer_stats"
              /\ last'.args[1] = id
              /\ last'.args[2] \in {"win", "loss"})
               => /\ last'.err = NoError
                  /\ DOMAIN store' = DOMAIN store
                  /\ store'[id].fights = store[id].fights + 1
                  /\ store'[id].wins
                        = store[id].wins + (IF last'.args[2] = "win" THEN 1 ELSE 0)
                  /\ [store'[id] EXCEPT !.fights = 0, !.wins = 0]
                        = [store[id] EXCEPT !.fights = 0, !.wins = 0]
                  /\ \A o \in DOMAIN store \ {id} : store'[o] = store[o] ]_vars
    /\ [](\A id \in DOMAIN store : \A n \in 0..3 :
             /\ UpdatedTimes(store, id, "win", n)[id].fights = store[id].fights + n
             /\ UpdatedTimes(store, id, "win", n)[id].wins = store[id].wins + n
             /\ UpdatedTimes(store, id, "loss", n)[id].fights = store[id].fights + n
             /\ UpdatedTimes(store, id, "loss", n)[id].wins = store[id].wins)

\* a loss has been recorded on a row that had a win, beside another row
C7_Witness ==
    /\ last.op = "update_boxer_stats"
    /\ last.err = NoError
    /\ last.args[2] = "loss"
    /\ store[last.args[1]].fights = 2
    /\ store[last.args[1]].wins = 1
    /\ Cardinality(DOMAIN store) = 2

\* C8: in every reachable state, whatever calls of create_boxer,
\* delete_boxer, update_boxer_stats and fight were made and whether or not
\* they failed, every row has 0 <= wins <= fights.
C8_WinsAtMostFights ==
    \A id \in DOMAIN store :
        0 <= store[id].wins /\ store[id].wins <= store[id].fights

\* a fight has returned and its winner has as many wins as fights
C8_Witness ==
    /\ last.op = "fight"
    /\ last.err = NoError
    /\ \E id \in DOMAIN store :
          /\ store[id].name = last.ret
          /\ store[id].wins >= 1
          /\ store[id].wins = store[id].fights

\* C9: create_boxer fails with a validation error whenever weight < 125,
\* height <= 0, reach <= 0 or age is outside 18..40, and then the table is
\* as it was; weight = 125, age = 18 and age = 40 are accepted.
C9_CreateValidation ==
    [][ last'.op = "create_boxer"
          => LET weight == last'.args[2]
                 height == last'.args[3]
                 reach == last'.args[4]
                 age == last'.args[5]
             IN  IF weight < 125 \/ height <= 0 \/ reach <= 0
                       \/ age < 18 \/ age > 40
                 THEN /\ last'.err \in ValidationErrors
                      /\ store' = store
                      /\ nextId' = nextId
                 ELSE last'.err \notin ValidationErrors ]_vars

\* a create_boxer with age 41 has been refused on a table whose rows were
\* accepted with weight 125 and age 18, and with age 40
C9_Witness ==
    /\ last.op = "create_boxer"
    /\ last.err = InvalidAge
    /\ last.args[5] = 41
    /\ \E id \in DOMAIN store : store[id].weight = 125 /\ store[id].age = 18
    /\ \E id \in DOMAIN store : store[id].age = 40

\* C10 as stated: create_boxer with a name that is in the table fails with
\* DuplicateError whatever the other values are, and the table is as it was.
C10_DuplicateAlways ==
    [][ (last'.op = "create_boxer"
            /\ \E id \in DOMAIN store : store[id].name = last'.args[1])
          => /\ last'.err = DuplicateError
             /\ store' = store ]_vars

\* C10 amended: create_boxer with a name that is in the table always fails
\* and leaves the table as it was: with DuplicateError whenever the other
\* values pass the validation, whatever they are, and with the validation
\* error when they do not (the validation comes first).
C10_DuplicateAfterValidation ==
    [][ (last'.op = "create_boxer"
            /\ \E id \in DOMAIN store : store[id].name = last'.args[1])
          => /\ store' = store
             /\ nextId' = nextId
             /\ IF last'.args[2] >= 125 /\ last'.args[3] > 0 /\ last'.args[4] > 0
                     /\ last'.args[5] >= 18 /\ last'.args[5] <= 40
                THEN last'.err = DuplicateError
                ELSE last'.err \in ValidationErrors ]_vars

\* a create_boxer with the name of a row and other valid values was refused
C10_Witness ==
    /\ last.op = "create_boxer"
    /\ last.err = DuplicateError
    /\ \E id \in DOMAIN store :
          /\ store[id].name = last.args[1]
          /\ store[id].weight # last.args[2]
          /\ store[id].age # last.args[5]

\* no two rows of table st have the same name
NamesUnique(st) ==
    \A a, b \in DOMAIN st : st[a].name = st[b].name => a = b

\* C11: in every reachable state no two rows have the same name and no two
\* have the same id: an insert takes an id that no row has or had, and a name
\* that no row has (it is free again only once its row is deleted).
C11_UniqueNamesAndIds ==
    /\ [](NamesUnique(store) /\ \A id \in DOMAIN store : id < nextId)
    /\ [][ (last'.op = "create_boxer" /\ last'.err = NoError)
             => /\ \A id \in DOMAIN store : store[id].name # last'.args[1]
                /\ DOMAIN store' \ DOMAIN store = {nextId}
                /\ nextId \notin DOMAIN store
                /\ nextId' > nextId
                /\ store'[nextId].name = last'.args[1] ]_vars

\* a name has been taken again, under a new id, after its row was deleted
\* (the boxer of the deleted row is still in the ring)
C11_Witness ==
    /\ last.op = "create_boxer"
    /\ last.err = NoError
    /\ Len(ring) >= 1
    /\ ring[1].id \notin DOMAIN store
    /\ \E id \in DOMAIN store : store[id].name = ring[1].name /\ id # ring[1].id

\* the weight class of a weight of at least 125, by the table of thresholds
WeightClassOf(w) ==
    IF w >= 203 THEN "HEAVYWEIGHT"
    ELSE IF w >= 166 THEN "MIDDLEWEIGHT"
    ELSE IF w >= 133 THEN "LIGHTWEIGHT"
    ELSE "FEATHERWEIGHT"

\* boxer b has exactly the values args = <<name, weight, height, reach, age>>
HasValues(b, args) ==
    /\ b.type = "Boxer"
    /\ b.name = args[1]
    /\ b.weight = args[2]
    /\ b.height = args[3]
    /\ b.reach = args[4]
    /\ b.age = args[5]
    /\ b.weight_class = WeightClassOf(args[2])

\* C12: a create_boxer that succeeds adds exactly one row, with fights = 0
\* and wins = 0, and leaves the other rows as they were; get_boxer_by_id or
\* get_boxer_by_name called next for that row returns exactly the name,
\* weight, height, reach and age that were passed, with the weight class of
\* the weight.
C12_CreateThenGet ==
    /\ [][ (last'.op = "create_boxer" /\ last'.err = NoError)
             => /\ DOMAIN store' = DOMAIN store \cup {nextId}
                /\ nextId \notin DOMAIN store
                /\ store'[nextId].fights = 0
                /\ store'[nextId].wins = 0
                /\ \A id \in DOMAIN store : store'[id] = store[id] ]_vars
    /\ [][ (/\ last.op = "create_boxer"
            /\ last.err = NoError
            /\ last'.op = "get_boxer_by_id"
            /\ last'.args[1] = nextId - 1)
             => /\ last'.err = NoError
                /\ last'.val.id = nextId - 1
                /\ HasValues(last'.val, last.args) ]_vars
    /\ [][ (/\ last.op = "create_boxer"
            /\ last.err = NoError
            /\ last'.op = "get_boxer_by_name"
            /\ last'.args[1] = last.args[1])
             => /\ last'.err = NoError
                /\ last'.val.id = nextId - 1
                /\ HasValues(last'.val, last.args) ]_vars

\* the row created last, beside an older row, has been read by its name
C12_Witness ==
    /\ last.op = "get_boxer_by_name"
    /\ last.err = NoError
    /\ last.val.id = nextId - 1
    /\ last.val.height # last.val.reach
    /\ store[last.val.id].fights = 0
    /\ Cardinality(DOMAIN store) = 2

\* C13: delete_boxer(id) fails with NotFoundError when no row has the id,
\* and the table is as it was; otherwise it removes exactly that row; the id
\* is never given again, so that get_boxer_by_id(id), update_boxer_stats(id,
\* win or loss) and delete_boxer(id) fail with NotFoundError from then on.
C13_Delete ==
    /\ [][ last'.op = "delete_boxer"
             => IF last'.args[1] \notin DOMAIN store
                THEN /\ last'.err = NotFoundError
                     /\ store' = store
                ELSE /\ last'.err = NoError
                     /\ DOMAIN store' = DOMAIN store \ {last'.args[1]}
                     /\ \A id \in DOMAIN store' : store'[id] = store[id] ]_vars
    /\ [][ \A id \in Ids :
             (id < nextId /\ id \notin DOMAIN store) => id \notin DOMAIN store' ]_vars
    /\ [][ (/\ last'.op \in {"delete_boxer", "get_boxer_by_id",
                             "update_boxer_stats"}
            /\ last'.args[1] \notin DOMAIN store
            /\ last'.op = "update_boxer_stats" => last'.args[2] \in {"win", "loss"})
             => last'.err = NotFoundError /\ store' = store ]_vars

\* a row has been deleted beside another one, and a read of its id has failed
C13_Witness ==
    /\ last.op = "get_boxer_by_id"
    /\ last.err = NotFoundError
    /\ last.args[1] < nextId
    /\ DOMAIN store # {}

\* C14: update_boxer_stats fails with a validation error for a result other
\* than "win" and "loss", whether or not a row has the id, and with
\* NotFoundError for "win" or "loss" when no row has the id; in both cases
\* the table is as it was.
C14_UpdateStatsErrors ==
    [][ last'.op = "update_boxer_stats"
          => /\ last'.args[2] \notin {"win", "loss"}
                  => last'.err = InvalidResult /\ store' = store
             /\ (last'.args[2] \in {"win", "loss"}
                    /\ last'.args[1] \notin DOMAIN store)
                  => last'.err = NotFoundError /\ store' = store ]_vars

\* the result "draw" has been refused for an id that no row has
C14_Witness ==
    /\ last.op = "update_boxer_stats"
    /\ last.err = InvalidResult
    /\ last.args[2] = "draw"
    /\ last.args[1] \notin DOMAIN store
    /\ DOMAIN store # {}

\* C15: in every reachable state get_leaderboard, for "wins" and for
\* "win_pct", returns exactly the rows with fights > 0, each once: a row with
\* fights = 0 is never in it; the two boxers of a fight that succeeds have
\* fights > 0 afterwards, and fights of a row never decreases, so that they
\* are in it until their rows are deleted.
C15_LeaderboardExactlyFought ==
    /\ [](\A sort_by \in {"wins", "win_pct"} :
            /\ get_leaderboard(store, sort_by) # {}
            /\ \A r \in get_leaderboard(store, sort_by) :
                 /\ r.err = NoError
                 /\ {r.rows[i].id : i \in DOMAIN r.rows}
                      = {id \in DOMAIN store : store[id].fights > 0}
                 /\ \A i, j \in DOMAIN r.rows :
                      r.rows[i].id = r.rows[j].id => i = j
                 /\ \A i \in DOMAIN r.rows :
                      /\ r.rows[i].fights = store[r.rows[i].id].fights
                      /\ r.rows[i].fights > 0)
    /\ [][ (last'.op = "fight" /\ last'.err = NoError)
             => \A i \in 1..2 : /\ ring[i].id \in DOMAIN store'
                                /\ store'[ring[i].id].fights > 0 ]_vars
    /\ [][ \A id \in DOMAIN store \cap DOMAIN store' :
             store'[id].fights >= store[id].fights ]_vars

\* after a fight of one boxer against itself, the leaderboard has that boxer
\* and not the other row, which has never fought
C15_Witness ==
    /\ last.op = "fight"
    /\ last.err = NoError
    /\ Cardinality(DOMAIN store) = 2
    /\ \E id \in DOMAIN store : store[id].fights = 0
    /\ \A r \in get_leaderboard(store, "win_pct") :
         Len(r.rows) = 1 /\ r.rows[1].fights = 2

\* entry b has a strictly larger key than entry a
KeyLarger(sort_by, b, a) ==
    IF sort_by = "win_pct"
    THEN b.wins * a.fights > a.wins * b.fights
    ELSE b.wins > a.wins

\* C16: get_leaderboard("wins") and get_leaderboard("win_pct") succeed and
\* return entries in descending order of wins, and of wins / fights: no
\* entry comes before an entry with a strictly larger key; for any other
\* sort_by it fails with "Invalid sort_by parameter" and has not run the
\* query; in all cases the table is as it was.
C16_LeaderboardDescending ==
    [][ last'.op = "get_leaderboard"
          => /\ store' = store
             /\ IF last'.args[1] \in {"wins", "win_pct"}
                THEN /\ last'.err = NoError
                     /\ last'.val.queried
                     /\ \A i, j \in DOMAIN last'.val.rows :
                          i < j => ~KeyLarger(last'.args[1], last'.val.rows[j],
                                              last'.val.rows[i])
                ELSE /\ last'.err = InvalidSortBy
                     /\ ~last'.val.queried
                     /\ last'.val.rows = <<>> ]_vars

\* two boxers with one win each are listed by win_pct: the one that won its
\* only fight comes before the one that won one of two
C16_Witness ==
    /\ last.op = "get_leaderboard"
    /\ last.args[1] = "win_pct"
    /\ last.err = NoError
    /\ Len(last.val.rows) = 2
    /\ last.val.rows[1].wins = last.val.rows[2].wins
    /\ last.val.rows[1].win_pct > last.val.rows[2].win_pct
    /\ last.val.rows[1].id > last.val.rows[2].id

\* C17: for every weight w, get_weight_class(w) is HEAVYWEIGHT iff w >= 203,
\* MIDDLEWEIGHT iff 166 <= w < 203, LIGHTWEIGHT iff 133 <= w < 166,
\* FEATHERWEIGHT iff 125 <= w < 133, and it fails with "Invalid weight" iff
\* w < 125.
C17_WeightClass ==
    last.op = "get_weight_class"
      => LET w == last.args[1]
         IN  /\ last.ret = "HEAVYWEIGHT" <=> w >= 203
             /\ last.ret = "MIDDLEWEIGHT" <=> (166 <= w /\ w < 203)
             /\ last.ret = "LIGHTWEIGHT" <=> (133 <= w /\ w < 166)
             /\ last.ret = "FEATHERWEIGHT" <=> (125 <= w /\ w < 133)
             /\ last.err = InvalidWeight <=> w < 125
             /\ last.err = NoError <=> w >= 125
             /\ last.err # NoError => last.ret = None

\* the class of the least middleweight has been asked for
C17_Witness ==
    /\ last.op = "get_weight_class"
    /\ last.args[1] = 166
    /\ last.err = NoError
    /\ last.ret = "MIDDLEWEIGHT"

\* C18: get_random raises "timed out" when the request times out, "Request
\* to random.org failed" when the request raises anything else, "Invalid
\* response" when the text is no number, and nothing else; it returns a
\* number exactly when the request answered with the text of a number.
C18_RandomSourceErrors ==
    last.op = "get_random"
      => /\ last.err \in {NoError, TimeoutError, UnavailableError, ParseError}
         /\ last.rnd.kind = "timeout" <=> last.err = TimeoutError
         /\ last.rnd.kind \in {"http_error", "exception"}
              <=> last.err = UnavailableError
         /\ (last.rnd.kind = "ok" /\ ~IsFloat(last.rnd.body))
              <=> last.err = ParseError
         /\ (last.rnd.kind = "ok" /\ IsFloat(last.rnd.body))
              <=> (last.err = NoError /\ last.val.type = "float")

\* C19: enter_ring called with a value that is not a Boxer fails with
\* "Invalid type", whether the ring holds 0, 1 or 2 boxers, and the ring and
\* the table are as they were.
C19_EnterRingNotABoxer ==
    [][ (last'.op = "enter_ring" /\ ~IsBoxer(last'.args[1]))
          => /\ last'.err = TypeConstraintError
             /\ ring' = ring
             /\ store' = store ]_vars

\* a value that is not a Boxer has been refused by a full ring
C19_Witness ==
    /\ last.op = "enter_ring"
    /\ ~IsBoxer(last.args[1])
    /\ last.err = TypeConstraintError
    /\ Len(ring) = 2

\* C20: a fight with two boxers in the ring that fails, because get_random
\* or one of the two update_boxer_stats raised, leaves the ring as it was:
\* the same two boxers in the same order, so that enter_ring of a boxer
\* fails with "Ring is full"; a fight changes the ring only when it succeeds.
C20_FailedFightKeepsRing ==
    /\ [][ (last'.op = "fight" /\ Len(ring) = 2 /\ last'.err # NoError)
             => /\ ring' = ring
                /\ Len(ring') = 2
                /\ \A id \in Ids :
                     enter_ring(ring', Boxer(id, "Ali", 200, 70, 74, 28)).err
                       = CapacityError ]_vars
    /\ [][ (last'.op = "fight" /\ ring' # ring) => last'.err = NoError ]_vars

\* the second update_boxer_stats of a fight has failed, after the first one
\* was made, and the two boxers are still in the ring
C20_Witness ==
    /\ last.op = "fight"
    /\ last.err = NotFoundError
    /\ Len(ring) = 2
    /\ last.winner \in {1, 2}
    /\ ring[last.winner].id \in DOMAIN store
    /\ store[ring[last.winner].id].wins > 0
    /\ ring[3 - last.winner].id \notin DOMAIN store

\* C21: in a fight, update_boxer_stats(winner, "win") is made before
\* update_boxer_stats(loser, "loss"), each in a transaction of its own: when
\* the winner's row is missing the fight fails and the table is as it was;
\* when only the loser's row is missing the fight fails after the winner's
\* row has got one more fight and one more win, every other row is as it
\* was and no row of the loser appears.
C21_WinnerUpdatedFirst ==
    [][ (/\ last'.op = "fight"
         /\ Len(ring) = 2
         /\ last'.winner \in {1, 2}
         /\ last'.err # NoError)
          => LET w == ring[last'.winner].id
                 l == ring[3 - last'.winner].id
             IN  /\ last'.err = NotFoundError
                 /\ w \notin DOMAIN store \/ l \notin DOMAIN store
                 /\ w \notin DOMAIN store => store' = store
                 /\ w \in DOMAIN store
                      => /\ DOMAIN store' = DOMAIN store
                         /\ store'[w] = [store[w] EXCEPT
                                           !.fights = store[w].fights + 1,
                                           !.wins = store[w].wins + 1]
                         /\ \A o \in DOMAIN store \ {w} : store'[o] = store[o]
                         /\ l \notin DOMAIN store' ]_vars

\* the second boxer of the ring has won and has its first fight and win in
\* the table, and the fight has failed on the first boxer, whose row was
\* deleted while it stood in the ring
C21_Witness ==
    /\ last.op = "fight"
    /\ last.err = NotFoundError
    /\ last.winner = 2
    /\ Len(ring) = 2
    /\ ring[1].id \notin DOMAIN store
    /\ ring[2].id \in DOMAIN store
    /\ store[ring[2].id].fights = 1
    /\ store[ring[2].id].wins = 1

\* Ali of the scenario: weight 200, reach 74, age 28
IsAli(b) ==
    b.type = "Boxer" /\ b.name = "Ali" /\ b.weight = 200 /\ b.reach = 74
        /\ b.age = 28

\* Tyson of the scenario: weight 220, reach 71, age 25
IsTyson(b) ==
    b.type = "Boxer" /\ b.name = "Tyson" /\ b.weight = 220 /\ b.reach = 71
        /\ b.age = 25

\* C22 as stated: get_fighting_skill(boxer) is weight * len(name) + reach / 10 + m
\* with m = -1 for age < 25, -2 for age > 35 and 0 otherwise; Ali scores
\* 607.4 and Tyson 1106.1, a difference of 498.7; a fight with Ali entered
\* first and Tyson second makes Ali the winner for every draw below 1.0.
C22_ScenarioAsStated ==
    /\ [](last.op = "get_fighting_skill"
            => LET b == last.args[1]
                   m == IF b.age < 25 THEN -10 ELSE IF b.age > 35 THEN -20 ELSE 0
               IN  /\ last.err = NoError
                   /\ last.val.tenths = 10 * b.weight * Len(b.name) + b.reach + m
                   /\ IsAli(b) => last.val.tenths = 6074
                   /\ IsTyson(b) => last.val.tenths = 11061)
    /\ [][ (/\ last'.op = "fight"
            /\ Len(ring) = 2
            /\ IsAli(ring[1])
            /\ IsTyson(ring[2]))
             => /\ skill_delta(get_fighting_skill(ring[1]),
                               get_fighting_skill(ring[2])) = 4987
                /\ last'.rnd.body[1] = "0"
                     => /\ last'.winner = 1
                        /\ last'.err = NoError
                        /\ last'.ret = "Ali"
                        /\ store'[ring[1].id].wins = store[ring[1].id].wins + 1
                        /\ store'[ring[2].id].wins = store[ring[2].id].wins ]_vars

\* C22: get_fighting_skill(boxer) is weight * len(name) + reach / 10 + m
\* with m = -1 for age < 25, -2 for age > 35 and 0 otherwise; Ali scores
\* 607.4 and Tyson, whose age 25 has the modifier 0, 1107.1, a difference of
\* 499.7; a fight with Ali entered
\* first and Tyson second makes Ali the winner for every draw below 1.0.
C22_SkillAndScenario ==
    /\ [](last.op = "get_fighting_skill"
            => LET b == last.args[1]
                   m == IF b.age < 25 THEN -10 ELSE IF b.age > 35 THEN -20 ELSE 0
               IN  /\ last.err = NoError
                   /\ last.val.tenths = 10 * b.weight * Len(b.name) + b.reach + m
                   /\ IsAli(b) => last.val.tenths = 6074
                   /\ IsTyson(b) => last.val.tenths = 11071)
    /\ [][ (/\ last'.op = "fight"
            /\ Len(ring) = 2
            /\ IsAli(ring[1])
            /\ IsTyson(ring[2]))
             => /\ skill_delta(get_fighting_skill(ring[1]),
                               get_fighting_skill(ring[2])) = 4997
                /\ last'.rnd.body[1] = "0"
                     => /\ last'.winner = 1
                        /\ last'.err = NoError
                        /\ last'.ret = "Ali"
                        /\ store'[ring[1].id].wins = store[ring[1].id].wins + 1
                        /\ store'[ring[2].id].wins = store[ring[2].id].wins ]_vars

\* Ali, entered first, has beaten Tyson with the draw 0.99
C22_Witness ==
    /\ last.op = "fight"
    /\ last.err = NoError
    /\ last.ret = "Ali"
    /\ last.winner = 1
    /\ last.rnd.body = <<"0", ".", "9", "9">>
    /\ \E a, t \in DOMAIN store :
         /\ store[a].name = "Ali" /\ store[a].wins = 1 /\ store[a].fights = 1
         /\ store[t].name = "Tyson" /\ store[t].wins = 0 /\ store[t].fights = 1

\* the sum of fights, or of wins, over the rows ids of table st
RECURSIVE SumFights(_, _)
SumFights(st, ids) ==
    IF ids = {} THEN 0
    ELSE LET id == CHOOSE x \in ids : TRUE
         IN  st[id].fights + SumFights(st, ids \ {id})

RECURSIVE SumWins(_, _)
SumWins(st, ids) ==
    IF ids = {} THEN 0
    ELSE LET id == CHOOSE x \in ids : TRUE
         IN  st[id].wins + SumWins(st, ids \ {id})

\* C23: a fight that succeeds adds exactly 2 to the sum of fights over all
\* rows and exactly 1 to the sum of wins, adds and removes no row and
\* changes only the rows of the two boxers of the ring; when the same boxer
\* stands in both places, which enter_ring allows, its row gets 2 fights
\* and 1 win.
C23_FightAddsTwoFightsOneWin ==
    [][ (last'.op = "fight" /\ last'.err = NoError)
          => /\ Len(ring) = 2
             /\ DOMAIN store' = DOMAIN store
             /\ SumFights(store', DOMAIN store')
                  = SumFights(store, DOMAIN store) + 2
             /\ SumWins(store', DOMAIN store') = SumWins(store, DOMAIN store) + 1
             /\ \A id \in DOMAIN store \ {ring[1].id, ring[2].id} :
                  store'[id] = store[id]
             /\ \A i \in 1..2 :
                  /\ ring[i].id \in DOMAIN store
                  /\ [store'[ring[i].id] EXCEPT !.fights = 0, !.wins = 0]
                       = [store[ring[i].id] EXCEPT !.fights = 0, !.wins = 0]
             /\ ring[1].id = ring[2].id
                  => /\ store'[ring[1].id].fights = store[ring[1].id].fights + 2
                     /\ store'[ring[1].id].wins = store[ring[1].id].wins + 1
             /\ ring[1].id # ring[2].id
                  => /\ store'[ring[last'.winner].id].fights
                          = store[ring[last'.winner].id].fights + 1
                     /\ store'[ring[last'.winner].id].wins
                          = store[ring[last'.winner].id].wins + 1
                     /\ store'[ring[3 - last'.winner].id].fights
                          = store[ring[3 - last'.winner].id].fights + 1
                     /\ store'[ring[3 - last'.winner].id].wins
                          = store[ring[3 - last'.winner].id].wins ]_vars

\* the only boxer ever created has fought itself: its row has 2 fights and
\* 1 win
C23_Witness ==
    /\ last.op = "fight"
    /\ last.err = NoError
    /\ nextId = 2
    /\ DOMAIN store = {1}
    /\ store[1].fights = 2
    /\ store[1].wins = 1
    /\ ring = <<>>

====
